---- MODULE Spec2Model ----
(***************************************************************************)
(* Model of server.py, the coordinator of the distributed MD5 cracker.     *)
(*                                                                         *)
(* One handle_client thread per connection plus the server_main accept     *)
(* loop.  Every `with lock:` section of the source is one atomic action    *)
(* (the lock makes the sections mutually exclusive); the code a thread     *)
(* runs between two sections is a separate action, so other threads can    *)
(* run in between (pc = "send_work", "notify", "cleanup").  A section      *)
(* whose sendall does not return, because the peer has stopped reading,    *)
(* is left open: the thread keeps the lock (pc = "send_blocked",           *)
(* "notify_blocked") until the send returns; the broadcast loop then goes  *)
(* on from the record after the one it was blocked on.                     *)
(*                                                                         *)
(* Spec has workers that declare cores >= 1 and keep reading; SpecAnyPeer  *)
(* has arbitrary peers; FairSpec adds the scheduling of the listener.      *)
(***************************************************************************)
EXTENDS Integers, Sequences, FiniteSets, TLC

\* ------------------------------------------------------------------ sizes
\* server.py:9
START_NUMBER == 0
\* server.py:10 has 1 * 10**10 - 1; the model keeps the range small.
END_NUMBER == 3
\* server.py:11 has 100000; the model keeps the per-core unit small.
BLOCK_SIZE_PER_CORE == 2
\* Number of connections the listener can accept in one run.
NumConns == 3
\* Largest cores value a register frame carries in the model.
MaxCores == 2
\* Most records the clients list holds in the model (clients.append is unbounded).
MaxClients == 2
\* How far below zero the cores value of a register frame goes in the model
\* (any JSON integer is accepted by the code).
MaxNegCores == 1
\* How far below START_NUMBER current_number may be for the model to go on
\* allocating.
MaxUnder == 2

Conns == 1..NumConns
\* the connection field of a step that belongs to no session
NoConn == NumConns + 1
\* cores values of the register frames of a worker that declares its cores
CoresVals == 1..MaxCores
\* cores values of the register frames of any peer
AllCores == (0 - MaxNegCores)..MaxCores
\* number values of found frames.
FoundNumbers == {1, 2}
\* found_number = None (server.py:17)
None == -1

Min(a, b) == IF a <= b THEN a ELSE b

VARIABLES
    \* module globals, server.py:14-20; lock is the connection of the thread
    \* inside a `with lock:` block, NoConn when the lock is free
    lock, current_number, found, found_number, clients, assigned_work,
    \* handle_client locals, one per thread: position, client_cores, work
    pc, client_cores, work,
    \* server_main position
    lpc,
    \* the connections whose peer has stopped reading, with the socket
    \* buffers full: a sendall to them does not return
    stalled,
    \* notify_all_clients local of the thread inside the loop of
    \* server.py:127: the position in clients of the record `client` whose
    \* sendall has not returned, 0 when no loop is under way
    client,
    \* observation of the run (not program state): the last session step,
    \* how often each number was sent in a work frame while no session had
    \* closed and nothing was found, the numbers whose block was given up by
    \* its holder before anything was found, the start the last cleanup of a
    \* holder rolled back to (a set, empty once a block is allocated), the
    \* sessions that were live when a report about to broadcast flipped found
    \* and are still open, and the threads that flipped found and have not
    \* yet run their broadcast.
    ev, issueCount, consumed, reclaim, liveAtFound, pendingWon

progVars == <<lock, current_number, found, found_number, clients, assigned_work,
              pc, client_cores, work, lpc, stalled, client>>
obsVars == <<ev, issueCount, consumed, reclaim, liveAtFound, pendingWon>>
vars == <<progVars, obsVars>>

\* ---------------------------------------------------------------- helpers
Range(b) == b.start .. b.end
Numbers == START_NUMBER .. END_NUMBER

\* a session is live from accept until its cleanup has closed the socket
Live == {c \in Conns : pc[c] \in {"recv", "send_work", "notify", "cleanup",
                                  "send_blocked", "notify_blocked"}}

\* the elements of a sequence
Elems(seq) == {seq[i] : i \in 1..Len(seq)}

\* the connections of the records of the clients list, in list order
ClientConns == [i \in 1..Len(clients) |-> clients[i].conn]

Event(op, c, resp) ==
    [op |-> op, c |-> c, resp |-> resp, start |-> 0, end |-> -1,
     to |-> <<>>, won |-> FALSE, reclaimed |-> {}, locked |-> FALSE]

NoneIssued == [n \in Numbers |-> 0]

\* the numbers of a block that lie in the search range
InRange(b) == Range(b) \cap Numbers

\* a pop that leaves the entry in the table
KeepEntry(table, c) == table

\* dict.pop(conn): the table without conn's entry
Pop(table, c) == [d \in (DOMAIN table) \ {c} |-> table[d]]

\* table[conn] = blk
Put(table, c, blk) == [d \in (DOMAIN table) \cup {c} |-> IF d = c THEN blk ELSE table[d]]

\* the numbers whose block its holder gave up by sending request_work or
\* found while holding it (server.py:63-64, 97-98)
Consume(c) ==
    IF c \in DOMAIN assigned_work
    THEN consumed \cup InRange(assigned_work[c])
    ELSE consumed

\* the run so far has seen no session close and no found report
Clean == ~found /\ \A c \in Conns : pc[c] # "closed"

Init ==
    /\ lock = NoConn
    /\ stalled = {}
    /\ client = 0
    /\ current_number = START_NUMBER
    /\ found = FALSE
    /\ found_number = None
    /\ clients = <<>>
    /\ assigned_work = [d \in {} |-> [start |-> 0, end |-> 0]]
    /\ pc = [c \in Conns |-> "new"]
    /\ client_cores = [c \in Conns |-> 1]
    /\ work = [d \in {} |-> [start |-> 0, end |-> 0]]
    /\ lpc = "check"
    /\ ev = Event("init", NoConn, "none")
    /\ issueCount = NoneIssued
    /\ consumed = {}
    /\ reclaim = {}
    /\ liveAtFound = {}
    /\ pendingWon = {}

\* what a step leaves alone besides the variables it names
SameGlobals == UNCHANGED <<lock, current_number, found, found_number, clients,
                           assigned_work>>
SameLocals == UNCHANGED <<client_cores, work, stalled, client>>
SameObs == UNCHANGED <<issueCount, consumed, reclaim, liveAtFound, pendingWon>>

\* ------------------------------------------------------------ server_main
\* a loop test that never sees found
ListenerNeverStops ==
    /\ lpc = "check"
    /\ lpc' = "accept"
    /\ SameGlobals /\ SameLocals /\ SameObs
    /\ UNCHANGED <<pc, ev>>

\* server.py:166, the loop test `while not found`
ListenerCheck ==
    /\ lpc = "check"
    /\ lpc' = IF found THEN "closed" ELSE "accept"
    /\ SameGlobals /\ SameLocals /\ SameObs
    /\ UNCHANGED <<pc, ev>>

\* the connection object the next accept returns: connections are fresh
\* objects, numbered in the order they are accepted
NextConn == CHOOSE c \in Conns : pc[c] = "new" /\ \A d \in Conns : d < c => pc[d] # "new"

\* server.py:168-170, accept returns and the handler thread starts
Accept ==
    /\ lpc = "accept"
    /\ \E c \in Conns : pc[c] = "new"
    /\ pc' = [pc EXCEPT ![NextConn] = "recv"]
    /\ lpc' = "check"
    /\ SameGlobals /\ SameLocals /\ SameObs
    /\ UNCHANGED ev

\* server.py:171-172, accept times out after settimeout(1.0)
AcceptTimeout ==
    /\ lpc = "accept"
    /\ lpc' = "check"
    /\ SameGlobals /\ SameLocals /\ SameObs
    /\ UNCHANGED <<pc, ev>>

\* server.py:173-176, KeyboardInterrupt leaves the loop and closes the socket
KeyboardInterrupt ==
    /\ lpc \in {"check", "accept"}
    /\ lpc' = "closed"
    /\ SameGlobals /\ SameLocals /\ SameObs
    /\ UNCHANGED <<pc, ev>>

\* ---------------------------------------------------------- handle_client
\* The frames a session receives in the model: unparseable text, a message
\* without type, register with an integer cores or without cores,
\* request_work, found with or without number; and the end of the stream.
\* (A message of any other type matches no branch and changes nothing.)
\* a cleanup that drops the block without rolling the cursor back
ReleaseKeep(cur, blk) == cur

\* server.py:115, current_number after the cleanup of a holder of blk
ReleaseOffset(cur, blk) == blk.start

\* a cleanup that leaves the records of the closing connection in the list
RemainingAll(c) == clients

\* server.py:116, the clients list without conn's records
Remaining(c) == SelectSeq(clients, LAMBDA r : r.conn # c)

\* server.py:110-118, the finally block of the thread of c.  A thread that
\* leaves its receive loop touches no shared state before it takes the lock
\* here, so leaving the loop and the locked section are one step.  The
\* thread ends with it: its local client_cores is gone (back to the initial 1).
Finally(c) ==
    /\ lock = NoConn
    /\ stalled' = stalled \ {c}
    /\ IF c \in DOMAIN assigned_work
       THEN /\ current_number' = ReleaseOffset(current_number, assigned_work[c])
            /\ reclaim' = IF current_number > assigned_work[c].start
                          THEN {assigned_work[c].start}
                          ELSE {}
       ELSE UNCHANGED <<current_number, reclaim>>
    /\ assigned_work' = Pop(assigned_work, c)
    /\ clients' = Remaining(c)
    /\ pc' = [pc EXCEPT ![c] = "closed"]
    /\ client_cores' = [client_cores EXCEPT ![c] = 1]
    /\ issueCount' = NoneIssued
    /\ liveAtFound' = liveAtFound \ {c}
    /\ UNCHANGED <<lock, found, found_number, work, lpc, client>>
    /\ UNCHANGED <<consumed, pendingWon>>

\* server.py:46-50, json.loads raises JSONDecodeError: the frame is dropped
BadJson(c) ==
    /\ pc[c] = "recv"
    /\ ev' = Event("bad_json", c, "none")
    /\ SameGlobals /\ SameLocals /\ SameObs
    /\ UNCHANGED <<pc, lpc>>

\* server.py:52, message['type'] raises KeyError on a message without a type
\* field; server.py:108 catches it outside the receive loop and the finally
\* block runs
NoType(c) ==
    /\ pc[c] = "recv"
    /\ Finally(c)
    /\ ev' = [Event("no_type", c, "none") EXCEPT !.locked = TRUE]

\* server.py:52-58
Register(c, cores) ==
    /\ pc[c] = "recv"
    /\ lock = NoConn
    /\ Len(clients) < MaxClients
    /\ client_cores' = [client_cores EXCEPT ![c] = cores]
    /\ clients' = Append(clients, [conn |-> c, cores |-> cores])
    /\ ev' = [Event("register", c, "none") EXCEPT !.locked = TRUE]
    /\ UNCHANGED <<lock, current_number, found, found_number, assigned_work, pc,
                   work, lpc, stalled, client>>
    /\ SameObs

\* server.py:54, message['cores'] raises KeyError on a register without cores
RegisterNoCores(c) ==
    /\ pc[c] = "recv"
    /\ Finally(c)
    /\ ev' = [Event("register_no_cores", c, "none") EXCEPT !.locked = TRUE]

\* a block that is not cut at END_NUMBER
NextBlockUncut(cur, cores) ==
    [start |-> cur, end |-> cur + BLOCK_SIZE_PER_CORE * cores - 1]

\* a block sized for one core whatever the session declared
NextBlockOneCore(cur, cores) ==
    [start |-> cur, end |-> Min(cur + BLOCK_SIZE_PER_CORE - 1, END_NUMBER)]

\* server.py:72-74
NextBlock(cur, cores) ==
    [start |-> cur,
     end |-> Min(cur + BLOCK_SIZE_PER_CORE * cores - 1, END_NUMBER)]

\* a cursor that stops on the last number of the block instead of after it
AdvanceShort(blk) == blk.end

\* server.py:81, current_number after blk has been allocated
Advance(blk) == blk.end + 1

\* server.py:69 and 78, send_message inside the `with lock:` block: the
\* sendall of server.py:145 returns at once unless the peer has stalled, and
\* then the thread stays inside the block, holding the lock
AnswerLocked(c) ==
    /\ pc' = IF c \in stalled THEN [pc EXCEPT ![c] = "send_blocked"] ELSE pc
    /\ lock' = IF c \in stalled THEN c ELSE lock

\* server.py:60-83, the locked section of request_work
RequestWork(c) ==
    /\ pc[c] = "recv"
    /\ lock = NoConn
    /\ current_number >= START_NUMBER - MaxUnder
    /\ consumed' = IF found THEN consumed ELSE Consume(c)
    /\ LET table == Pop(assigned_work, c)
           blk == NextBlock(current_number, client_cores[c])
       IN  IF found
           THEN \* server.py:66-70
                /\ assigned_work' = table
                /\ ev' = [Event("request_work", c, "stop") EXCEPT !.locked = TRUE]
                /\ AnswerLocked(c)
                /\ UNCHANGED <<current_number, work, reclaim>>
           ELSE IF blk.start > END_NUMBER
           THEN \* server.py:75-79
                /\ assigned_work' = table
                /\ ev' = [Event("request_work", c, "no_work") EXCEPT !.locked = TRUE]
                /\ AnswerLocked(c)
                /\ UNCHANGED <<current_number, work, reclaim>>
           ELSE \* server.py:81-83
                /\ current_number' = Advance(blk)
                /\ assigned_work' = Put(table, c, blk)
                /\ work' = Put(work, c, blk)
                /\ pc' = [pc EXCEPT ![c] = "send_work"]
                /\ reclaim' = {}
                /\ UNCHANGED lock
                /\ ev' = [Event("request_work", c, "work") EXCEPT
                             !.start = blk.start, !.end = blk.end,
                             !.reclaimed = reclaim, !.locked = TRUE]
    /\ UNCHANGED <<found, found_number, clients, client_cores, lpc, stalled,
                   client>>
    /\ UNCHANGED <<issueCount, liveAtFound, pendingWon>>

\* issueCount after a work frame carrying blk (counts stop at 2; only the
\* frames of a clean run are counted)
Issued(blk) ==
    IF Clean
    THEN [n \in Numbers |-> IF n \in Range(blk) THEN Min(issueCount[n] + 1, 2)
                            ELSE issueCount[n]]
    ELSE NoneIssued

\* server.py:85-92, the work frame is sent after the lock is released;
\* send_message (server.py:143-147) swallows a failed send; the send to a
\* stalled peer returns only once the peer reads again
SendWork(c) ==
    /\ pc[c] = "send_work"
    /\ c \notin stalled
    /\ pc' = [pc EXCEPT ![c] = "recv"]
    /\ issueCount' = Issued(work[c])
    /\ ev' = [Event("send_work", c, "work") EXCEPT
                 !.start = work[c].start, !.end = work[c].end]
    /\ work' = Pop(work, c)
    /\ SameGlobals
    /\ UNCHANGED <<client_cores, lpc, stalled, client>>
    /\ UNCHANGED <<consumed, reclaim, liveAtFound, pendingWon>>

\* a found report that overwrites the recorded number
RecordAlways(number) == number

\* server.py:100-102, found_number after a found report carrying number
RecordNumber(number) == IF ~found THEN number ELSE found_number

\* server.py:94-103, the locked section of a found report with a number
Found(c, number) ==
    /\ pc[c] = "recv"
    /\ lock = NoConn
    /\ assigned_work' = Pop(assigned_work, c)
    /\ found' = TRUE
    /\ found_number' = RecordNumber(number)
    /\ liveAtFound' = IF ~found THEN Live ELSE liveAtFound
    /\ pendingWon' = IF ~found THEN pendingWon \cup {c} ELSE pendingWon
    /\ pc' = [pc EXCEPT ![c] = "notify"]
    /\ ev' = [Event("found", c, "none") EXCEPT !.won = ~found, !.locked = TRUE]
    /\ consumed' = {}
    /\ issueCount' = NoneIssued
    /\ UNCHANGED <<lock, current_number, clients, client_cores, work, lpc, stalled,
                   client>>
    /\ UNCHANGED reclaim

\* server.py:94-103 on a found report without a number field: when found is
\* false, line 101 sets found and line 102 raises KeyError, which leaves the
\* receive loop before notify_all_clients; when found is already true
\* message['number'] is never evaluated and the report is handled as usual
FoundNoNumber(c) ==
    /\ pc[c] = "recv"
    /\ lock = NoConn
    /\ assigned_work' = Pop(assigned_work, c)
    /\ found' = TRUE
    /\ pc' = [pc EXCEPT ![c] = IF ~found THEN "cleanup" ELSE "notify"]
    /\ ev' = [Event("found_no_number", c, "none") EXCEPT !.won = ~found, !.locked = TRUE]
    /\ consumed' = {}
    /\ issueCount' = NoneIssued
    /\ UNCHANGED <<lock, current_number, found_number, clients, client_cores, work,
                   lpc, stalled, client>>
    /\ UNCHANGED <<reclaim, liveAtFound, pendingWon>>

\* server.py:127-132, the connections notify_all_clients sends a stop frame
\* to when the sends to `failed` raise: the try/except inside the loop (and
\* the one in send_message) keeps the loop going, so every record is tried
StopTargets(failed) == ClientConns

\* server.py:106 and 121-132, notify_all_clients, called after every found
\* report whether or not it flipped found; it sends under the lock.  This is
\* the loop reaching its end: every record has been sent to and the lock is
\* released
Broadcast(c) ==
    /\ \E failed \in SUBSET Elems(ClientConns) :
          ev' = [Event("notify", c, "stop") EXCEPT
                    !.to = StopTargets(failed),
                    !.won = (c \in pendingWon), !.locked = TRUE]
    /\ pendingWon' = pendingWon \ {c}
    /\ pc' = [pc EXCEPT ![c] = "recv"]
    /\ lock' = NoConn
    /\ client' = 0
    /\ UNCHANGED <<current_number, found, found_number, clients, assigned_work>>
    /\ UNCHANGED <<client_cores, work, lpc, stalled>>
    /\ UNCHANGED <<issueCount, consumed, reclaim, liveAtFound>>

\* server.py:127-130, the position of the first record at or after `from`
\* whose peer has stalled, so that the sendall to it does not return; 0 when
\* there is none and the loop runs to its end
BlockedAt(from) ==
    LET at == {i \in from..Len(clients) : clients[i].conn \in stalled}
    IN  IF at = {} THEN 0 ELSE CHOOSE i \in at : \A j \in at : i <= j

\* the records the loop of server.py:127-130 has sent to when it is at
\* position i
SentBefore(i) == SubSeq(ClientConns, 1, i - 1)

\* server.py:127-130, the loop running on from position `from`: to its end
\* when no record from there on belongs to a stalled peer, else up to the
\* first such record, where the sendall does not return and the thread stays
\* in the loop, holding the lock
Loop(c, from) ==
    IF BlockedAt(from) = 0
    THEN Broadcast(c)
    ELSE /\ lock' = c
         /\ pc' = [pc EXCEPT ![c] = "notify_blocked"]
         /\ client' = BlockedAt(from)
         /\ ev' = [Event("notify_blocked", c, "stop") EXCEPT
                      !.to = SentBefore(BlockedAt(from)), !.locked = TRUE]
         /\ UNCHANGED <<current_number, found, found_number, clients,
                        assigned_work>>
         /\ UNCHANGED <<client_cores, work, lpc, stalled>>
         /\ SameObs

\* server.py:106 and 121-132: the thread takes the lock and runs the loop
\* from the first record
Notify(c) ==
    /\ pc[c] = "notify"
    /\ lock = NoConn
    /\ Loop(c, 1)

\* server.py:127-132, the blocked sendall returns (the peer of the record
\* the loop is at reads again or resets its connection, whatever the peers
\* of the records already sent to do) and the loop goes on with the records
\* after it
NotifyReturns(c) ==
    /\ pc[c] = "notify_blocked"
    /\ lock = c
    /\ clients[client].conn \notin stalled
    /\ Loop(c, client + 1)

\* server.py:69-70 and 78-79, the blocked sendall of a stop or no_work
\* answer returns and the `with lock:` block is left
SendReturns(c) ==
    /\ pc[c] = "send_blocked"
    /\ lock = c
    /\ c \notin stalled
    /\ lock' = NoConn
    /\ pc' = [pc EXCEPT ![c] = "recv"]
    /\ UNCHANGED <<current_number, found, found_number, clients, assigned_work>>
    /\ SameLocals /\ SameObs
    /\ UNCHANGED <<lpc, ev>>

\* the peer of a live connection stops reading and the socket buffers fill
\* (server.py:145, sendall on a blocking socket)
PeerStalls(c) ==
    /\ c \in Live
    /\ c \notin stalled
    /\ stalled' = stalled \cup {c}
    /\ SameGlobals /\ SameObs
    /\ UNCHANGED <<client_cores, work, pc, lpc, client, ev>>

\* the peer reads again, or resets the connection (the failed send is
\* swallowed at server.py:146)
PeerResumes(c) ==
    /\ c \in stalled
    /\ stalled' = stalled \ {c}
    /\ SameGlobals /\ SameObs
    /\ UNCHANGED <<client_cores, work, pc, lpc, client, ev>>

\* server.py:39-41 and 108, recv returns no data (peer closed) or raises
PeerClose(c) ==
    /\ pc[c] = "recv"
    /\ Finally(c)
    /\ ev' = [Event("peer_close", c, "none") EXCEPT !.locked = TRUE]

\* server.py:110-118 for a thread whose found report raised after setting
\* found: the lock was released in between, so others may have run
Cleanup(c) ==
    /\ pc[c] = "cleanup"
    /\ Finally(c)
    /\ ev' = [Event("cleanup", c, "none") EXCEPT !.locked = TRUE]

\* ------------------------------------------------------------------- runs
Next ==
    \/ ListenerCheck
    \/ Accept
    \/ AcceptTimeout
    \/ KeyboardInterrupt
    \/ \E c \in Conns : PeerClose(c)
    \/ \E c \in Conns : BadJson(c)
    \/ \E c \in Conns : NoType(c)
    \/ \E c \in Conns : \E cores \in CoresVals : Register(c, cores)
    \/ \E c \in Conns : RegisterNoCores(c)
    \/ \E c \in Conns : RequestWork(c)
    \/ \E c \in Conns : SendWork(c)
    \/ \E c \in Conns : \E number \in FoundNumbers : Found(c, number)
    \/ \E c \in Conns : FoundNoNumber(c)
    \/ \E c \in Conns : Notify(c)
    \/ \E c \in Conns : Cleanup(c)

Spec == Init /\ [][Next]_vars

\* The listener back at its loop test after it accepted the first
\* connection, whose peer closed it before it sent anything.
InitListening ==
    /\ lock = NoConn
    /\ stalled = {}
    /\ client = 0
    /\ current_number = START_NUMBER
    /\ found = FALSE
    /\ found_number = None
    /\ clients = <<>>
    /\ assigned_work = [d \in {} |-> [start |-> 0, end |-> 0]]
    /\ pc = [c \in Conns |-> IF c = 1 THEN "closed" ELSE "new"]
    /\ client_cores = [c \in Conns |-> 1]
    /\ work = [d \in {} |-> [start |-> 0, end |-> 0]]
    /\ lpc = "check"
    /\ ev = [Event("peer_close", 1, "none") EXCEPT !.locked = TRUE]
    /\ issueCount = NoneIssued
    /\ consumed = {}
    /\ reclaim = {}
    /\ liveAtFound = {}
    /\ pendingWon = {}

\* The listener thread keeps running: the loop test is evaluated when the
\* loop reaches it, and accept returns with a connection or, after the
\* timeout of server.py:162, with socket.timeout.  Nothing is assumed about
\* the peers or the session threads.
FairSpec ==
    /\ InitListening
    /\ [][Next]_vars
    /\ WF_vars(ListenerCheck)
    /\ WF_vars(Accept \/ AcceptTimeout)

\* The sessions of two connections after the listener has accepted NumConns
\* connections and was interrupted, and every other connection was closed by
\* its peer before it sent anything.
InitSessions ==
    /\ lock = NoConn
    /\ stalled = {}
    /\ client = 0
    /\ current_number = START_NUMBER
    /\ found = FALSE
    /\ found_number = None
    /\ clients = <<>>
    /\ assigned_work = [d \in {} |-> [start |-> 0, end |-> 0]]
    /\ pc = [c \in Conns |-> IF c <= 2 THEN "recv" ELSE "closed"]
    /\ client_cores = [c \in Conns |-> 1]
    /\ work = [d \in {} |-> [start |-> 0, end |-> 0]]
    /\ lpc = "closed"
    /\ ev = [Event("peer_close", NumConns, "none") EXCEPT !.locked = TRUE]
    /\ issueCount = NoneIssued
    /\ consumed = {}
    /\ reclaim = {}
    /\ liveAtFound = {}
    /\ pendingWon = {}

\* the steps of the sessions when the peers are arbitrary programs: a
\* register frame carries any integer, and a peer may stop reading
NextAnyPeer ==
    \/ \E c \in Conns : PeerClose(c)
    \/ \E c \in Conns : BadJson(c)
    \/ \E c \in Conns : NoType(c)
    \/ \E c \in Conns : \E cores \in AllCores : Register(c, cores)
    \/ \E c \in Conns : RegisterNoCores(c)
    \/ \E c \in Conns : RequestWork(c)
    \/ \E c \in Conns : SendWork(c)
    \/ \E c \in Conns : \E number \in FoundNumbers : Found(c, number)
    \/ \E c \in Conns : FoundNoNumber(c)
    \/ \E c \in Conns : Notify(c)
    \/ \E c \in Conns : Cleanup(c)
    \/ \E c \in Conns : PeerStalls(c)
    \/ \E c \in Conns : PeerResumes(c)
    \/ \E c \in Conns : SendReturns(c)
    \/ \E c \in Conns : NotifyReturns(c)

SpecAnyPeer == InitSessions /\ [][NextAnyPeer]_vars

\* ----------------------------------------------------------------- claims
\* the numbers of the blocks in the assignment table
Held == UNION {InRange(assigned_work[c]) : c \in DOMAIN assigned_work}

\* the threads that have allocated a block and not yet sent its work frame
Pending == {c \in Conns : pc[c] = "send_work"}

\* how often n has been put in a work frame, sent or about to be sent
Count(n) == issueCount[n] + Cardinality({c \in Pending : n \in Range(work[c])})

\* C1: while no session has closed and nothing was found, the blocks of the
\* work frames are non-empty, every number below current_number lies in
\* exactly one of them and no number at or above it lies in any (they tile
\* [0, current_number - 1] from 0 without gap or overlap), and request_work
\* answers no_work only once the block ending at END_NUMBER has been issued.
C1_Tiling ==
    Clean =>
        /\ current_number \in START_NUMBER .. END_NUMBER + 1
        /\ \A n \in Numbers : Count(n) = IF n < current_number THEN 1 ELSE 0
        /\ \A c \in DOMAIN assigned_work :
              assigned_work[c].start <= assigned_work[c].end
        /\ (ev.op = "request_work" /\ ev.resp = "no_work") => Count(END_NUMBER) = 1

\* a clean run in which two sessions hold blocks, every work frame has been
\* sent, the whole range is covered and a request was answered no_work
C1_Witness ==
    /\ Clean
    /\ ev.op = "request_work" /\ ev.resp = "no_work"
    /\ Cardinality(DOMAIN assigned_work) >= 2
    /\ \A n \in Numbers : issueCount[n] = 1

\* C2: two different connections never hold overlapping blocks in the
\* assignment table at the same time (an entry is removed when its holder
\* disconnects, so both holders are live and never disconnected).
C2_NoDoubleIssue ==
    \A c, d \in DOMAIN assigned_work :
        c # d => Range(assigned_work[c]) \cap Range(assigned_work[d]) = {}

\* C3: while found is false, every number of the range below current_number
\* is in a block of the assignment table or in a block its holder gave up by
\* a later request_work or a found report.
C3_NothingLost ==
    ~found => \A n \in Numbers : n < current_number => n \in Held \cup consumed

\* C4: after the cleanup of a connection that held a block with
\* current_number above its start, the next request_work that allocates a
\* block (found still false, no other holder cleaned up in between) gets a
\* block that starts at that start.
C4_Reclaim ==
    (ev.op = "request_work" /\ ev.resp = "work")
        => \A start \in ev.reclaimed : ev.start = start

\* a block was allocated to a session right at the start a cleanup rolled
\* back to, while another session still holds a block
C4_Witness ==
    /\ ev.op = "request_work" /\ ev.resp = "work"
    /\ ev.reclaimed = {ev.start}
    /\ \E c \in Conns : pc[c] = "closed"
    /\ Cardinality(DOMAIN assigned_work) >= 2

\* C5: once found is true it stays true and found_number keeps its value,
\* whatever later found reports carry, and every request_work handled from
\* then on is answered stop, leaves no block for its connection in the
\* assignment table and leaves current_number unchanged.
C5_FoundMonotone ==
    [][found =>
          /\ found' /\ found_number' = found_number
          /\ (ev'.op = "request_work" /\ ev' # ev) =>
                /\ ev'.resp = "stop"
                /\ ev'.c \notin DOMAIN assigned_work'
                /\ current_number' = current_number]_vars

\* a found report has recorded a number, its broadcast has run, and a
\* request_work handled afterwards was answered stop
C5_Witness ==
    /\ found /\ found_number \in FoundNumbers
    /\ ev.op = "request_work" /\ ev.resp = "stop"
    /\ pendingWon = {}

\* C6: once the broadcast of the report that flipped found has run, every
\* session other than the reporter that was live at the flip and is still
\* open has been sent a stop frame by it, registered or not.
C6_BroadcastComplete ==
    (ev.op = "notify" /\ ev.won) =>
        \A c \in liveAtFound \ {ev.c} : pc[c] = "closed" \/ c \in Elems(ev.to)

\* C7: a found report handled when found is already true sends no stop
\* frame: only the broadcast of the report that flipped found sends any.
C7_OnlyWinnerBroadcasts ==
    (ev.op = "notify" /\ ~ev.won) => ev.to = <<>>

\* C8: no work frame is sent once found is true (hence none after a stop
\* frame, which is only ever sent when found is true).
C8_NoWorkAfterFound ==
    ev.op = "send_work" => ~found

\* the steps that handle a malformed frame
Malformed == {"bad_json", "no_type", "register_no_cores", "found_no_number"}

\* C9: a malformed frame (unparseable, or lacking type, cores or number) is
\* dropped: its session stays in the receive loop and current_number, found,
\* found_number, the assignment table and the clients list are unchanged.
C9_MalformedDropped ==
    [][(ev'.op \in Malformed /\ ev' # ev) =>
          /\ pc'[ev'.c] = "recv"
          /\ UNCHANGED <<current_number, found, found_number, assigned_work,
                         clients>>]_vars

\* C10: a closed session has no entry in the assignment table and no record
\* in the clients list, and a broadcast that runs after the close sends
\* nothing to it.
C10_ClosedIsGone ==
    \A c \in Conns :
        pc[c] = "closed" =>
            /\ c \notin DOMAIN assigned_work
            /\ c \notin Elems(ClientConns)
            /\ ev.op = "notify" => c \notin Elems(ev.to)

\* a broadcast that reached another session ran after a session had closed
C10_Witness ==
    /\ ev.op = "notify" /\ ev.to # <<>>
    /\ \E c \in Conns : pc[c] = "closed"

\* the last step sent a frame on a socket: a stop or no_work answer, a work
\* frame, or the stop frames of a broadcast
SentFrame ==
    \/ ev.op = "request_work" /\ ev.resp \in {"stop", "no_work"}
    \/ ev.op = "send_work"
    \/ ev.op = "notify" /\ ev.to # <<>>

\* C11: no frame is sent by a thread that holds the global lock: every
\* stop, no_work and work frame, the stop frames of the broadcast included, is
\* sent by a step that runs outside the locked sections.
C11_NoLockedSend ==
    SentFrame => ~ev.locked

\* C12: the cleanup of a connection that holds a block sets current_number
\* to the smaller of current_number and the block's start: it never raises
\* current_number, and leaves it alone when it is at or below the start.
C12_CleanupTakesMin ==
    [][\A c \in Conns :
          (pc[c] # "closed" /\ pc'[c] = "closed" /\ c \in DOMAIN assigned_work)
              => current_number' = Min(current_number, assigned_work[c].start)]_vars

\* C13: a request_work handled for a session with client_cores >= 1 (1 until
\* the session registers, then the cores of its latest register) while found
\* is false and current_number = n <= END_NUMBER records the block
\* {n, min(n + BLOCK_SIZE_PER_CORE * client_cores - 1, END_NUMBER)} for the
\* connection, sets current_number to its end + 1, and the work frame sent
\* afterwards carries the start and end recorded in the assignment table.
C13_BlockComputed ==
    /\ [][\A c \in Conns :
            /\ (~found /\ current_number <= END_NUMBER /\ client_cores[c] >= 1
                    /\ RequestWork(c))
                  => LET n == current_number
                         e == Min(n + BLOCK_SIZE_PER_CORE * client_cores[c] - 1,
                                  END_NUMBER)
                     IN  /\ c \in DOMAIN assigned_work'
                         /\ assigned_work'[c] = [start |-> n, end |-> e]
                         /\ current_number' = e + 1
                         /\ pc'[c] = "send_work"
                         /\ work'[c] = [start |-> n, end |-> e]
            /\ \A k \in CoresVals :
                  (Len(clients') > Len(clients) /\ Register(c, k))
                      => client_cores'[c] = k
            /\ (client_cores'[c] # client_cores[c] /\ pc'[c] # "closed")
                  => \E k \in CoresVals : Register(c, k)]_vars
    /\ [](\A c \in Conns : pc[c] = "new" => client_cores[c] = 1)
    /\ [](ev.op = "send_work" =>
             /\ ev.c \in DOMAIN assigned_work
             /\ assigned_work[ev.c] = [start |-> ev.start, end |-> ev.end])

\* a registered session with two cores has been sent a work frame whose block
\* was cut at END_NUMBER, after another session took the first block
C13_Witness ==
    /\ ev.op = "send_work"
    /\ client_cores[ev.c] = 2
    /\ ev.start > START_NUMBER
    /\ ev.start + BLOCK_SIZE_PER_CORE * client_cores[ev.c] - 1 > END_NUMBER
    /\ ev.end = END_NUMBER
    /\ assigned_work[ev.c] = [start |-> ev.start, end |-> ev.end]

\* C14: every block recorded in the assignment table or sent in a work frame
\* satisfies START_NUMBER <= start <= end <= END_NUMBER, whatever integer the
\* register frames carry as cores.
C14_BlocksWellFormed ==
    /\ \A c \in DOMAIN assigned_work :
          /\ START_NUMBER <= assigned_work[c].start
          /\ assigned_work[c].start <= assigned_work[c].end
          /\ assigned_work[c].end <= END_NUMBER
    /\ ev.op = "send_work" =>
          /\ START_NUMBER <= ev.start
          /\ ev.start <= ev.end
          /\ ev.end <= END_NUMBER

\* C15: a found report from a connection that holds a block removes the
\* block from the assignment table and leaves current_number as it was; and
\* the reporter's later disconnect leaves current_number unchanged too: from
\* the report on found is true, while found is true no connection gains a
\* table entry, and the cleanup of a connection without an entry does not
\* touch current_number.
C15_FoundConsumes ==
    [][\A c \in Conns :
          /\ (c \in DOMAIN assigned_work /\ pc[c] = "recv" /\ pc'[c] # "recv"
                /\ (FoundNoNumber(c) \/ \E number \in FoundNumbers : Found(c, number)))
                => /\ c \notin DOMAIN assigned_work'
                   /\ current_number' = current_number
                   /\ found'
          /\ found => (c \in DOMAIN assigned_work' => c \in DOMAIN assigned_work)
          /\ (pc[c] # "closed" /\ pc'[c] = "closed" /\ c \notin DOMAIN assigned_work)
                => current_number' = current_number]_vars

\* the only session of the run was allocated a block, reported found without
\* a number while it held the block (every other way of giving the block up
\* moves current_number to 0 or past the block after it), and its cleanup
\* has run: current_number still stands after the reported block
C15_Witness ==
    /\ ev.op = "cleanup" /\ pc[ev.c] = "closed"
    /\ \A d \in Conns \ {ev.c} : pc[d] = "new"
    /\ found
    /\ current_number = START_NUMBER + BLOCK_SIZE_PER_CORE
    /\ assigned_work = << >>

\* C16: in every reachable state found_number is set exactly when found is
\* true.
C16_NumberIffFound ==
    found <=> found_number # None

\* the number of records of c in the clients list, which is the number of
\* stop frames one broadcast sends to c
Records(c) == Cardinality({i \in 1..Len(clients) : clients[i].conn = c})

\* C17: however many register frames a live connection has sent, the
\* clients list holds one record for it (a repeated register only replaces
\* the cores), so one broadcast sends it one stop frame.
C17_OneRecord ==
    /\ \A c \in Conns : Records(c) <= 1
    /\ ev.op = "notify" =>
          \A c \in Conns : Cardinality({i \in 1..Len(ev.to) : ev.to[i] = c}) <= 1

\* C18: once found is true the listener eventually leaves its accept loop
\* and closes the listening socket; after that it never accepts a connection
\* again; and the step that leaves the loop changes no session: every
\* thread's position, the assignment table and the clients list stay as
\* they are.
C18_ListenerStops ==
    /\ found ~> (lpc = "closed")
    /\ [][lpc = "closed" =>
             /\ lpc' = "closed"
             /\ \A c \in Conns : pc[c] = "new" => pc'[c] = "new"]_vars
    /\ [][(lpc # "closed" /\ lpc' = "closed") =>
             UNCHANGED <<pc, assigned_work, clients>>]_vars

\* found is true, its broadcast has run, the listener has closed its socket,
\* and a session with a table entry and a record in the clients list is
\* still in its receive loop
C18_Witness ==
    /\ found /\ lpc = "closed"
    /\ ev.op = "notify"
    /\ \E c \in Conns :
          pc[c] = "recv" /\ c \in DOMAIN assigned_work /\ Records(c) >= 1

\* C19: the lock never leaves a thread waiting forever: every locked block
\* runs to its end and releases the lock without waiting for anything, so in
\* every reachable state the lock is free or its holder is not stuck inside
\* the block (the broadcast is started only after the caller has left its
\* own block).
C19_LockNeverStuck ==
    \A c \in Conns :
        lock = c => pc[c] \notin {"send_blocked", "notify_blocked"}

\* C20: with every cores value >= 1, current_number stays within
\* START_NUMBER .. END_NUMBER + 1 in every reachable state, whatever the
\* order of register, request_work, found and disconnect; and a request_work
\* handled with current_number = END_NUMBER + 1 and found false is answered
\* no_work, records no block and leaves current_number unchanged.
C20_OffsetInRange ==
    /\ [](current_number \in START_NUMBER .. END_NUMBER + 1)
    /\ [](\A c \in Conns : client_cores[c] >= 1)
    /\ [][\A c \in Conns :
            (~found /\ current_number = END_NUMBER + 1 /\ RequestWork(c))
                => /\ ev'.op = "request_work" /\ ev'.c = c
                   /\ ev'.resp = "no_work"
                   /\ c \notin DOMAIN assigned_work'
                   /\ current_number' = current_number]_vars

\* after a holder was cleaned up and its block was issued again, the range
\* is used up and a request_work was answered no_work
C20_Witness ==
    /\ ~found
    /\ current_number = END_NUMBER + 1
    /\ ev.op = "request_work" /\ ev.resp = "no_work"
    /\ \E c \in Conns : pc[c] = "closed"
    /\ assigned_work # << >>

====
